---- MODULE Spec2Model ----
(***************************************************************************)
(* A model of simple-supervisor (src/simple-supervisor.c): the main thread *)
(* of the supervisor (setup_children, pump, check_signals,                 *)
(* check_for_terminations, teardown), its signal handler, and the          *)
(* environment it runs in (the supervised processes, their pipes, the      *)
(* alarm timer, signals sent to the supervisor from outside).              *)
(*                                                                         *)
(* The main thread is one process whose position is pc.  The signal        *)
(* handler runs to completion between two steps of the main thread: it     *)
(* only writes a flag and one byte to the self-pipe, so its interleaving   *)
(* with another handler invocation gives the same result as running the    *)
(* two one after the other.                                                *)
(***************************************************************************)
EXTENDS Integers, Sequences, FiniteSets, TLC

(***************************************************************************)
(* Bounds of the model.  CHILDREN_COUNT and MAX_LINE_LENGTH are the        *)
(* configuration's names (src/config.h); the table they size is an input   *)
(* of the program, and the model explores small tables and short lines.    *)
(***************************************************************************)
CHILDREN_COUNT == 2

MAX_LINE_LENGTH == 2

\* what the environment does to the supervisor in one run: bytes the children
\* write, signals sent from outside, pipe() and fork() calls that fail
MaxEvents == 2

\* bytes the self-pipe holds before write() fails with EAGAIN
PipeCapacity == 1

PHASE_CHECK == 0

PHASE_NORMAL == 1

Children == 1..CHILDREN_COUNT

Streams == {"out", "err"}

\* the byte values the children write: LF and a letter
StreamBytes == {10, 97}

\* signals the supervisor sends to its children
ChildSignals == {"SIGTERM", "SIGINT", "SIGHUP", "SIGUSR1", "SIGUSR2", "SIGKILL"}

\* signals the supervisor handles; SIGCHLD and SIGALRM have their own actions
ExternalSignals == {"SIGTERM", "SIGINT", "SIGUSR1", "SIGUSR2", "SIGALRM"}

\* wait statuses: exit(0), exit(1), killed by SIGTERM
WaitStatuses == {0, 256, 15}

WEXITSTATUS(status) == (status \div 256) % 256

(***************************************************************************)
(* The configuration table: each entry is drawn from a menu of child       *)
(* configurations (startup checks and normal children, with different      *)
(* forwarding flags and termination signals).                              *)
(***************************************************************************)
ConfigMenu ==
    { [is_startup_check |-> 1, receives_sigusr1 |-> 1, receives_sigusr2 |-> 0,
       termination_signal |-> "SIGINT"],
      [is_startup_check |-> 0, receives_sigusr1 |-> 1, receives_sigusr2 |-> 0,
       termination_signal |-> "SIGTERM"],
      [is_startup_check |-> 0, receives_sigusr1 |-> 0, receives_sigusr2 |-> 1,
       termination_signal |-> "SIGHUP"] }

VARIABLES
    child_configuration,  \* the configuration table
    char_signed,          \* the build's plain char is signed
    pc,                   \* position of the main thread
    phase,                \* argument of setup_children / pump
    setup_i,              \* loop index of setup_children
    rv,                   \* result of setup_children
    children,             \* struct child_state children[]
    teardown_in_progress,
    termination_signal_received,
    sigusr1_received,
    sigusr2_received,
    sigalrm_received,
    self_pipe,            \* bytes waiting in the self-pipe
    fds,                  \* descriptors open in the supervisor
    exit_code,            \* exit status of the supervisor once pc = "exited"
    \* the environment
    proc,                 \* the supervised processes
    pipes,                \* the pipes between the children and the supervisor
    alarm_armed,          \* the alarm timer is running
    eintr,                \* a handler ran while the main thread was in poll()
    next_pid,
    budget,               \* events the environment may still cause
    \* history
    sent,                 \* signals sent to each child, counted
    bad_kill,             \* kill() on a pid that is no live child
    bad_close,            \* close() on a descriptor that is not open
    alarm_calls,          \* calls of alarm()
    written,              \* bytes each child wrote to each stream
    emitted,              \* payloads of the records written for each stream
    logged,               \* [SYSTEM] messages printed about the startup checks
    failed_checks,        \* startup checks reaped with a nonzero exit status
    spawn_failed,         \* phases in which a pipe() or fork() call failed
    delivered,            \* per signal: deliveries no forwarding pass has followed
    served,               \* per signal: deliveries a forwarding pass has followed
    rises,                \* per signal: times the flag went from 0 to 1
    passes                \* per signal: forwarding passes

vars ==
    <<child_configuration, char_signed, pc, phase, setup_i, rv, children, teardown_in_progress,
      termination_signal_received, sigusr1_received, sigusr2_received,
      sigalrm_received, self_pipe, fds, exit_code,
      proc, pipes, alarm_armed, eintr, next_pid, budget,
      sent, bad_kill, bad_close, alarm_calls, written, emitted, logged,
      failed_checks, spawn_failed, delivered, served, rises, passes>>

\* what the build and the configuration fix
const_vars == <<child_configuration, char_signed>>

\* the variables only the signal handler and the flag tests write
flag_vars ==
    <<termination_signal_received, sigusr1_received, sigusr2_received,
      sigalrm_received>>

\* the variables only the environment writes
env_vars == <<proc, pipes, next_pid, budget, written, rises>>

\* the history of signal forwarding
fwd_vars == <<delivered, served, passes>>

(***************************************************************************)
(* Descriptors.  pipe() returns the two lowest descriptors that are free;  *)
(* the supervisor starts with stdin, stdout, stderr and the self-pipe.     *)
(***************************************************************************)
StartupFds == {0, 1, 2, 3, 4}

\* the k-th lowest descriptor that is not in S
NthFree(S, k) ==
    LET free == (0..(Cardinality(S) + k)) \ S
    IN  CHOOSE n \in free : Cardinality({m \in free : m < n}) = k - 1

\* close(fd) fails with EBADF, and closes nothing, when fd is not open
Close(S, fd) == S \ {fd}

\* a close() of a descriptor number that is not open (close(-1) set aside)
IsBadClose(S, fd) == fd # -1 /\ fd \notin S

(***************************************************************************)
(* kill().  want[i] is the signal the caller sends to children[i].pid, or  *)
(* "none".  The signal reaches the process that has this pid.              *)
(***************************************************************************)
Live(j) == proc[j].state \in {"alive", "zombie"}

Kill(ch, want) ==
    [j \in Children |->
        [sg \in ChildSignals |->
            sent[j][sg] + Cardinality({i \in Children :
                want[i] = sg /\ Live(j) /\ ch[i].pid = proc[j].pid})]]

\* a kill() whose pid is 0 or -1, or is not the pid of an unreaped child
KillMisses(ch, want) ==
    \E i \in Children :
        /\ want[i] # "none"
        /\ \A j \in Children : ~(Live(j) /\ ch[i].pid = proc[j].pid)

NoSignal == [i \in Children |-> "none"]

(***************************************************************************)
(* The state after setup_signal_handler(): main is about to call           *)
(* startup_check(), which calls setup_children(PHASE_CHECK).  children[]   *)
(* is a zeroed global.  signs holds the signedness of plain char of the    *)
(* builds considered: the children of Spec write no byte above 127         *)
(* (StreamBytes), so the sign of char plays no part in it.                 *)
(***************************************************************************)
InitWith(events, signs) ==
    /\ child_configuration \in [Children -> ConfigMenu]
    /\ char_signed \in signs
    /\ pc = "setup"
    /\ phase = PHASE_CHECK
    /\ setup_i = 1
    /\ rv = 0
    /\ children = [i \in Children |->
                     [pid |-> 0, running |-> 0, stdout |-> 0, stderr |-> 0,
                      out_buffer |-> <<>>, err_buffer |-> <<>>]]
    /\ teardown_in_progress = 0
    /\ termination_signal_received = 0
    /\ sigusr1_received = 0
    /\ sigusr2_received = 0
    /\ sigalrm_received = 0
    /\ self_pipe = 0
    /\ fds = StartupFds
    /\ exit_code = -1
    /\ proc = [i \in Children |-> [state |-> "none", pid |-> 0, status |-> 0]]
    /\ pipes = [i \in Children |-> [s \in Streams |-> [data |-> <<>>, wopen |-> FALSE]]]
    /\ alarm_armed = FALSE
    /\ eintr = FALSE
    /\ next_pid = 1
    /\ budget = events
    /\ sent = [i \in Children |-> [sg \in ChildSignals |-> 0]]
    /\ bad_kill = FALSE
    /\ bad_close = FALSE
    /\ alarm_calls = 0
    /\ written = [i \in Children |-> [s \in Streams |-> <<>>]]
    /\ emitted = [i \in Children |-> [s \in Streams |-> <<>>]]
    /\ logged = {}
    /\ spawn_failed = {}
    /\ failed_checks = {}
    /\ delivered = [sg \in {"SIGUSR1", "SIGUSR2"} |-> 0]
    /\ rises = [sg \in {"SIGUSR1", "SIGUSR2"} |-> 0]
    /\ passes = [sg \in {"SIGUSR1", "SIGUSR2"} |-> 0]
    /\ served = [sg \in {"SIGUSR1", "SIGUSR2"} |-> 0]

Init == InitWith(MaxEvents, {TRUE})

Config(i) == child_configuration[i]

Running(ch) == {i \in Children : ch[i].running # 0}

(***************************************************************************)
(* teardown(): does nothing when a teardown is in progress; otherwise      *)
(* sets the flag, sends every running child its termination signal and     *)
(* arms the alarm.  ch is children[] as the caller has it, msgs what the   *)
(* caller printed before the call.                                         *)
(***************************************************************************)
TeardownUnguarded(ch, msgs) ==
    /\ logged' = logged \cup msgs
    /\ teardown_in_progress' = 1
    /\ LET want == [i \in Children |->
                      IF ch[i].running = 0 THEN "none"
                      ELSE Config(i).termination_signal]
       IN  /\ sent' = Kill(ch, want)
           /\ bad_kill' = (bad_kill \/ KillMisses(ch, want))
    /\ alarm_armed' = TRUE
    /\ alarm_calls' = alarm_calls + 1

TeardownNoAlarm(ch, msgs) ==
    IF teardown_in_progress # 0
    THEN /\ logged' = logged \cup msgs
         /\ UNCHANGED <<teardown_in_progress, sent, bad_kill, alarm_armed, alarm_calls>>
    ELSE /\ logged' = logged \cup msgs
         /\ teardown_in_progress' = 1
         /\ LET want == [i \in Children |->
                           IF ch[i].running = 0 THEN "none"
                           ELSE Config(i).termination_signal]
            IN  /\ sent' = Kill(ch, want)
                /\ bad_kill' = (bad_kill \/ KillMisses(ch, want))
         /\ UNCHANGED <<alarm_armed, alarm_calls>>

teardown(ch, msgs) ==
    IF teardown_in_progress # 0
    THEN /\ logged' = logged \cup msgs
         /\ UNCHANGED <<teardown_in_progress, sent, bad_kill, alarm_armed, alarm_calls>>
    ELSE /\ logged' = logged \cup msgs
         /\ teardown_in_progress' = 1
         /\ LET want == [i \in Children |->
                           IF ch[i].running = 0 THEN "none"
                           ELSE Config(i).termination_signal]
            IN  /\ sent' = Kill(ch, want)
                /\ bad_kill' = (bad_kill \/ KillMisses(ch, want))
         /\ alarm_armed' = TRUE
         /\ alarm_calls' = alarm_calls + 1

\* what an action that does not call teardown() leaves alone
teardown_vars == <<teardown_in_progress, sent, bad_kill, alarm_armed, alarm_calls>>

(***************************************************************************)
(* brutal_teardown(): SIGKILL to every running child, then exit(1).        *)
(***************************************************************************)
\* exit(1) with no kill()
ExitWithoutKill(ch, msgs) ==
    /\ logged' = logged \cup msgs
    /\ pc' = "exited"
    /\ exit_code' = 1
    /\ UNCHANGED <<teardown_in_progress, sent, bad_kill, alarm_armed, alarm_calls>>

brutal_teardown(ch, msgs) ==
    /\ logged' = logged \cup msgs
    /\ LET want == [i \in Children |->
                      IF ch[i].running # 0 THEN "SIGKILL" ELSE "none"]
       IN  /\ sent' = Kill(ch, want)
           /\ bad_kill' = (bad_kill \/ KillMisses(ch, want))
    /\ pc' = "exited"
    /\ exit_code' = 1
    /\ UNCHANGED <<teardown_in_progress, alarm_armed, alarm_calls>>

(***************************************************************************)
(* setup_children(phase): one action per iteration of its loop.            *)
(***************************************************************************)
Skipped(i) ==
    \/ phase = PHASE_CHECK /\ Config(i).is_startup_check = 0
    \/ phase = PHASE_NORMAL /\ Config(i).is_startup_check # 0

\* where the loop goes after an iteration that did not break
SetupContinue ==
    /\ setup_i' = setup_i + 1
    /\ pc' = IF setup_i + 1 < CHILDREN_COUNT + 1 THEN "setup" ELSE "setup_ret"

\* the three pipes of one iteration, in the order of the calls: each pipe()
\* returns the two lowest free descriptors, <<read end, write end>>; after[k]
\* is what is open when the k-th call fails, after[4] when none does
SetupPipes ==
    [p_err |-> <<NthFree(fds, 1), NthFree(fds, 2)>>,
     p_in |-> <<NthFree(fds, 3), NthFree(fds, 4)>>,
     p_out |-> <<NthFree(fds, 5), NthFree(fds, 6)>>,
     after |-> <<fds,
                 fds \cup {NthFree(fds, k) : k \in 1..2},
                 fds \cup {NthFree(fds, k) : k \in 1..4},
                 fds \cup {NthFree(fds, k) : k \in 1..6}>>]

SetupSkip ==
    /\ pc = "setup"
    /\ Skipped(setup_i)
    /\ SetupContinue
    /\ UNCHANGED <<const_vars, phase, rv, children, teardown_vars,
                   flag_vars, self_pipe, fds, exit_code,
                   eintr, env_vars, delivered, served, bad_close, emitted, logged,
                   spawn_failed, failed_checks, passes>>

\* the k-th pipe() call of the iteration fails: the loop breaks, rv is as it was
SetupPipeFails(k) ==
    /\ pc = "setup"
    /\ ~Skipped(setup_i)
    /\ budget > 0
    /\ budget' = budget - 1
    /\ fds' = SetupPipes.after[k]
    /\ spawn_failed' = spawn_failed \cup {phase}
    /\ pc' = "setup_ret"
    /\ UNCHANGED <<const_vars, phase, setup_i, rv, children, teardown_vars,
                   flag_vars, self_pipe, exit_code,
                   eintr, proc, pipes, next_pid, written, delivered, served, rises,
                   bad_close, emitted, logged, failed_checks, passes>>

\* fork() fails: rv = -1 and the loop breaks
SetupForkFails ==
    /\ pc = "setup"
    /\ ~Skipped(setup_i)
    /\ budget > 0
    /\ budget' = budget - 1
    /\ LET p == SetupPipes
       IN  /\ children' = [children EXCEPT ![setup_i].stderr = p.p_err[1],
                                           ![setup_i].stdout = p.p_out[1]]
           /\ fds' = Close(p.after[4], p.p_in[2])
    /\ rv' = -1
    /\ spawn_failed' = spawn_failed \cup {phase}
    /\ pc' = "setup_ret"
    /\ UNCHANGED <<const_vars, phase, setup_i, teardown_vars,
                   flag_vars, self_pipe, exit_code,
                   eintr, proc, pipes, next_pid, written, delivered, served, rises,
                   bad_close, emitted, logged, failed_checks, passes>>

\* the three pipes and the fork succeed: the child runs
SetupSpawn ==
    /\ pc = "setup"
    /\ ~Skipped(setup_i)
    /\ LET p == SetupPipes
       IN  /\ children' = [children EXCEPT ![setup_i].stderr = p.p_err[1],
                                           ![setup_i].stdout = p.p_out[1],
                                           ![setup_i].pid = next_pid,
                                           ![setup_i].running = 1]
           /\ fds' = p.after[4] \ {p.p_in[2], p.p_in[1], p.p_out[2], p.p_err[2]}
    /\ rv' = rv + 1
    /\ proc' = [proc EXCEPT ![setup_i] = [state |-> "alive", pid |-> next_pid, status |-> 0]]
    /\ pipes' = [pipes EXCEPT ![setup_i] = [s \in Streams |-> [data |-> <<>>, wopen |-> TRUE]]]
    /\ next_pid' = next_pid + 1
    /\ SetupContinue
    /\ UNCHANGED <<const_vars, phase, teardown_vars,
                   flag_vars, self_pipe, exit_code,
                   eintr, budget, written, delivered, served, rises,
                   bad_close, emitted, logged, spawn_failed, failed_checks, passes>>

(***************************************************************************)
(* The callers of setup_children: startup_check() and main().              *)
(***************************************************************************)
SetupReturn ==
    /\ pc = "setup_ret"
    /\ IF phase = PHASE_CHECK
       THEN IF rv = -1
            THEN /\ teardown(children, {<<"Not all check commands could be spawned.", 0>>})
                 /\ pc' = "poll"
            ELSE /\ pc' = IF rv = 0 THEN "main_after_check" ELSE "poll"
                 /\ UNCHANGED <<teardown_vars, logged>>
       ELSE /\ IF rv = -1
               THEN teardown(children, {})
               ELSE UNCHANGED <<teardown_vars, logged>>
            /\ pc' = "poll"
    /\ UNCHANGED <<const_vars, phase, setup_i, rv, children, flag_vars, self_pipe,
                   fds, exit_code, eintr, env_vars, delivered, served,
                   bad_close, emitted, spawn_failed, failed_checks, passes>>

\* main() after startup_check() has returned
MainAfterCheck ==
    /\ pc = "main_after_check"
    /\ IF teardown_in_progress # 0
       THEN /\ logged' = logged \cup {<<"Startup check failed, shutting down.", 0>>}
            /\ pc' = "exited"
            /\ exit_code' = 1
            /\ UNCHANGED <<phase, setup_i, rv>>
       ELSE /\ phase' = PHASE_NORMAL
            /\ setup_i' = 1
            /\ rv' = 0
            /\ pc' = "setup"
            /\ UNCHANGED <<logged, exit_code>>
    /\ UNCHANGED <<const_vars, children, teardown_vars, flag_vars, self_pipe,
                   fds, eintr, env_vars, delivered, served,
                   bad_close, emitted, spawn_failed, failed_checks, passes>>

(***************************************************************************)
(* pump_buffer().  tmp is what read() returned (bytes_read = -1: read()    *)
(* failed).  The result: the buffer, the payloads flushed, the return      *)
(* value.                                                                  *)
(***************************************************************************)
\* the value of a plain char holding byte b
CharValue(b) == IF char_signed /\ b > 127 THEN b - 256 ELSE b

\* one turn of the loop over the bytes read
PumpByte(st, b) ==
    IF CharValue(b) = 13 THEN st
    ELSE IF CharValue(b) = 10
         THEN [buffer |-> <<>>, records |-> Append(st.records, st.buffer)]
    ELSE IF CharValue(b) < 32 \/ CharValue(b) = 127
         THEN [buffer |-> Append(st.buffer, 32), records |-> st.records]
    ELSE [buffer |-> Append(st.buffer, b), records |-> st.records]

RECURSIVE PumpBytes(_, _)
PumpBytes(st, tmp) ==
    IF tmp = <<>> THEN st ELSE PumpBytes(PumpByte(st, Head(tmp)), Tail(tmp))

pump_buffer(buffer, tmp, bytes_read) ==
    LET buffer_space_left == MAX_LINE_LENGTH - Len(buffer)
        st == PumpBytes([buffer |-> buffer, records |-> <<>>], tmp)
    IN  IF bytes_read = -1
        THEN [buffer |-> buffer, records |-> <<>>, ret |-> -1]
        ELSE IF bytes_read = 0
        THEN [buffer |-> <<>>, records |-> <<buffer>>, ret |-> 0]
        ELSE IF buffer_space_left = 0
        THEN [buffer |-> <<>>, records |-> Append(st.records, st.buffer), ret |-> 1]
        ELSE [buffer |-> st.buffer, records |-> st.records, ret |-> 1]

\* read(fd, tmp, n) on a pipe that poll() reported: the first n bytes waiting
Read(data, n) ==
    IF Len(data) < n THEN data ELSE SubSeq(data, 1, n)

(***************************************************************************)
(* pump(): setup_poll() and poll().  The poll set holds the self-pipe and  *)
(* the open streams of every running child.                                *)
(***************************************************************************)
SignalEntry == <<0, "signal">>

StreamFd(ch, i, s) == IF s = "out" THEN ch[i].stdout ELSE ch[i].stderr

StreamBuffer(ch, i, s) == IF s = "out" THEN ch[i].out_buffer ELSE ch[i].err_buffer

\* a poll set without the self-pipe
SetupPollWithoutSelfPipe ==
    {e \in Children \X Streams :
        children[e[1]].running # 0 /\ StreamFd(children, e[1], e[2]) # -1}

setup_poll ==
    {SignalEntry} \cup
    {e \in Children \X Streams :
        children[e[1]].running # 0 /\ StreamFd(children, e[1], e[2]) # -1}

\* entries poll() reports readable
Readable ==
    {e \in setup_poll :
        IF e = SignalEntry THEN self_pipe > 0 ELSE pipes[e[1]][e[2]].data # <<>>}

\* entries at end of file with nothing to read: POLLHUP, and on some systems POLLIN
HungUp ==
    {e \in setup_poll \ {SignalEntry} :
        pipes[e[1]][e[2]].data = <<>> /\ ~pipes[e[1]][e[2]].wopen}

\* true while poll() cannot return
Blocked == Readable = {} /\ HungUp = {} /\ ~eintr

(***************************************************************************)
(* check_signals(): each flag is tested, then cleared and acted on.  The   *)
(* tests whose flag is clear take no step of their own: CheckFrom(k) is    *)
(* where the main thread stands after the tests from the k-th on (1: the   *)
(* termination flag, 2: SIGUSR1, 3: SIGUSR2, 4: SIGALRM), at the first     *)
(* flag read as set, or at check_for_terminations.  At "cs_..._act" the    *)
(* flag has been read as set and is not yet cleared: a signal may arrive   *)
(* between the test and the clear.  A signal that arrives between two      *)
(* tests of clear flags finds its own test either still to come, as if it  *)
(* had arrived before the first of them, or passed, as if it had arrived   *)
(* after the last.                                                         *)
(***************************************************************************)
CheckFrom(k) ==
    IF k < 2 /\ termination_signal_received # 0 THEN "cs_term_act"
    ELSE IF k < 3 /\ sigusr1_received # 0 THEN "cs_usr1_act"
    ELSE IF k < 4 /\ sigusr2_received # 0 THEN "cs_usr2_act"
    ELSE IF sigalrm_received # 0 THEN "cs_alrm_act"
    ELSE "reap"

(***************************************************************************)
(* handle_io(): rev is the set of entries with POLLIN.  The self-pipe is   *)
(* drained; every other entry is pumped through its line buffer and        *)
(* closed when pump_buffer returns less than 1.                            *)
(***************************************************************************)
\* pump_buffer reading whatever the pipe holds, the space left not asked for
PumpedWithoutLimit(e) ==
    LET buf == StreamBuffer(children, e[1], e[2])
        tmp == pipes[e[1]][e[2]].data
    IN  [res |-> pump_buffer(buf, tmp, Len(tmp)), taken |-> Len(tmp)]

Pumped(e) ==
    LET buf == StreamBuffer(children, e[1], e[2])
        tmp == Read(pipes[e[1]][e[2]].data, MAX_LINE_LENGTH - Len(buf))
    IN  [res |-> pump_buffer(buf, tmp, Len(tmp)), taken |-> Len(tmp)]

handle_io(rev) ==
    LET closed == {e \in rev \ {SignalEntry} : Pumped(e).res.ret < 1}
    IN  /\ self_pipe' = IF SignalEntry \in rev
                        THEN self_pipe - (IF self_pipe < 1000 THEN self_pipe ELSE 1000)
                        ELSE self_pipe
        /\ children' = [i \in Children |->
              [children[i] EXCEPT
                 !.out_buffer = IF <<i, "out">> \in rev
                                THEN Pumped(<<i, "out">>).res.buffer ELSE @,
                 !.err_buffer = IF <<i, "err">> \in rev
                                THEN Pumped(<<i, "err">>).res.buffer ELSE @,
                 !.stdout = IF <<i, "out">> \in closed THEN -1 ELSE @,
                 !.stderr = IF <<i, "err">> \in closed THEN -1 ELSE @]]
        /\ pipes' = [i \in Children |-> [s \in Streams |->
              IF <<i, s>> \in rev
              THEN [pipes[i][s] EXCEPT
                      !.data = SubSeq(@, Pumped(<<i, s>>).taken + 1, Len(@))]
              ELSE pipes[i][s]]]
        /\ emitted' = [i \in Children |-> [s \in Streams |->
              IF <<i, s>> \in rev
              THEN emitted[i][s] \o Pumped(<<i, s>>).res.records
              ELSE emitted[i][s]]]
        /\ fds' = fds \ {StreamFd(children, e[1], e[2]) : e \in closed}
        /\ bad_close' = (bad_close \/
              \E e \in closed : IsBadClose(fds, StreamFd(children, e[1], e[2])))

\* poll() returns a positive count and pump() calls handle_io()
PollIo ==
    /\ pc = "poll"
    /\ Readable \cup HungUp # {}
    /\ \E hup_in \in BOOLEAN :
          LET rev == Readable \cup (IF hup_in THEN HungUp ELSE {})
          IN  handle_io(rev)
    /\ eintr' = FALSE
    /\ pc' = CheckFrom(1)
    /\ UNCHANGED <<const_vars, phase, setup_i, rv, teardown_vars, flag_vars,
                   exit_code, proc, next_pid, budget, written, rises, fwd_vars,
                   logged, spawn_failed, failed_checks>>

\* poll() returns -1 with EINTR: handle_io() is not called
PollInterrupted ==
    /\ pc = "poll"
    /\ eintr
    /\ eintr' = FALSE
    /\ pc' = CheckFrom(1)
    /\ UNCHANGED <<const_vars, phase, setup_i, rv, children, teardown_vars,
                   flag_vars, self_pipe, fds, exit_code, env_vars, fwd_vars,
                   bad_close, emitted, logged, spawn_failed, failed_checks>>

\* what the steps of check_signals leave alone, the flags and pc set aside
cs_frame ==
    <<const_vars, phase, setup_i, rv, children, self_pipe, fds, eintr, env_vars,
      bad_close, emitted, spawn_failed, failed_checks>>

\* the body of the termination branch, after the flag is cleared
TerminationNeverBrutal ==
    /\ teardown(children, {})
    /\ pc' = CheckFrom(2)
    /\ UNCHANGED exit_code

TerminationRequested ==
    IF teardown_in_progress # 0
    THEN brutal_teardown(children,
            {<<"Shutdown already in progress, so performing hard shutdown.", 0>>})
    ELSE /\ teardown(children, {})
         /\ pc' = CheckFrom(2)
         /\ UNCHANGED exit_code

CsTermAct ==
    /\ pc = "cs_term_act"
    /\ termination_signal_received' = 0
    /\ TerminationRequested
    /\ UNCHANGED <<cs_frame, sigusr1_received, sigusr2_received, sigalrm_received,
                   fwd_vars>>

\* a forwarding pass: sg to every running child whose configuration opts in
ForwardAll(sg) ==
    [i \in Children |-> IF children[i].running = 0 THEN "none" ELSE sg]

Forward(sg) ==
    [i \in Children |->
        IF children[i].running = 0 THEN "none"
        ELSE IF sg = "SIGUSR1" /\ Config(i).receives_sigusr1 # 0 THEN sg
        ELSE IF sg = "SIGUSR2" /\ Config(i).receives_sigusr2 # 0 THEN sg
        ELSE "none"]

ForwardingPass(sg) ==
    /\ sent' = Kill(children, Forward(sg))
    /\ bad_kill' = (bad_kill \/ KillMisses(children, Forward(sg)))
    /\ logged' = logged
    /\ passes' = [passes EXCEPT ![sg] = @ + 1]
    /\ served' = [served EXCEPT ![sg] = @ + delivered[sg]]
    /\ delivered' = [delivered EXCEPT ![sg] = 0]
    /\ UNCHANGED <<teardown_in_progress, alarm_armed, alarm_calls, exit_code>>


CsUsr1Act ==
    /\ pc = "cs_usr1_act"
    /\ sigusr1_received' = 0
    /\ ForwardingPass("SIGUSR1")
    /\ pc' = CheckFrom(3)
    /\ UNCHANGED <<cs_frame, termination_signal_received, sigusr2_received,
                   sigalrm_received>>


CsUsr2Act ==
    /\ pc = "cs_usr2_act"
    /\ sigusr2_received' = 0
    /\ ForwardingPass("SIGUSR2")
    /\ pc' = CheckFrom(4)
    /\ UNCHANGED <<cs_frame, termination_signal_received, sigusr1_received,
                   sigalrm_received>>


CsAlrmAct ==
    /\ pc = "cs_alrm_act"
    /\ sigalrm_received' = 0
    /\ brutal_teardown(children,
          {<<"Shutdown timeout has arrived, performing hard shutdown.", 0>>})
    /\ UNCHANGED <<cs_frame, termination_signal_received, sigusr1_received,
                   sigusr2_received, fwd_vars>>

(***************************************************************************)
(* check_for_terminations(): waitpid(-1, &status, WNOHANG) until no        *)
(* terminated child is left; each one is reaped, and teardown() is called  *)
(* unless it is a startup check whose WEXITSTATUS is 0.                    *)
(***************************************************************************)
\* the child_state reap() finds for pid: the first one running with this pid
ReapIndex(pid) ==
    LET hit == {i \in Children : children[i].pid = pid /\ children[i].running # 0}
    IN  IF hit = {} THEN 0 ELSE CHOOSE i \in hit : \A k \in hit : i <= k

\* the condition under which a reaped child leads to teardown()
TeardownOnlyInNormalPhase(status) == phase # PHASE_CHECK

TeardownOnlyOnFailure(status) == WEXITSTATUS(status) # 0

ExitCallsTeardown(status) == WEXITSTATUS(status) # 0 \/ phase # PHASE_CHECK

\* reap() leaving running and pid as they were
ReapedLeftRunning(i) ==
    IF i = 0 THEN children
    ELSE [children EXCEPT ![i].stderr = -1, ![i].stdout = -1]

\* children[] after reap(pid, status)
Reaped(i) ==
    IF i = 0 THEN children
    ELSE [children EXCEPT ![i].pid = -1, ![i].running = 0,
                          ![i].stderr = -1, ![i].stdout = -1]

\* what reap(pid, status) prints
ReapLog(i, exit_status) ==
    IF i = 0 THEN {}
    ELSE IF Config(i).is_startup_check # 0
         THEN IF exit_status = 0
              THEN {<<"Process has indicated success.", i>>}
              ELSE {<<"Process has indicated failure.", i>>}
    ELSE {}

WaitReap(j) ==
    /\ pc = "reap"
    /\ proc[j].state = "zombie"
    /\ proc' = [proc EXCEPT ![j].state = "reaped", ![j].status = 0]
    /\ failed_checks' =
          IF Config(j).is_startup_check # 0 /\ WEXITSTATUS(proc[j].status) # 0
          THEN failed_checks \cup {j} ELSE failed_checks
    /\ LET i == ReapIndex(proc[j].pid)
           status == proc[j].status
       IN  /\ children' = Reaped(i)
           /\ fds' = IF i = 0 THEN fds
                     ELSE Close(Close(fds, children[i].stderr), children[i].stdout)
           /\ bad_close' = (bad_close \/
                 (i # 0 /\ (IsBadClose(fds, children[i].stderr) \/
                            IsBadClose(fds, children[i].stdout))))
           /\ IF ExitCallsTeardown(status)
              THEN teardown(Reaped(i), ReapLog(i, status))
              ELSE /\ logged' = logged \cup ReapLog(i, status)
                   /\ UNCHANGED teardown_vars
    /\ UNCHANGED <<const_vars, pc, phase, setup_i, rv, flag_vars, self_pipe,
                   exit_code, eintr, pipes, next_pid,
                   budget, written, rises, fwd_vars, emitted, spawn_failed>>

\* check_pending()
check_pending == IF Running(children) # {} THEN 1 ELSE 0

(***************************************************************************)
(* waitpid() finds no terminated child: pump() returns check_pending(),    *)
(* and the caller's loop goes on or ends.  After the loop startup_check()  *)
(* reports success unless a teardown is in progress, and main() returns 1. *)
(***************************************************************************)
PumpReturn ==
    /\ pc = "reap"
    /\ \A j \in Children : proc[j].state # "zombie"
    /\ IF check_pending # 0
       THEN /\ pc' = "poll"
            /\ UNCHANGED <<logged, exit_code>>
       ELSE IF phase = PHASE_CHECK
       THEN /\ pc' = "main_after_check"
            /\ logged' = IF teardown_in_progress = 0
                         THEN logged \cup {<<"All startup checks have passed.", 0>>}
                         ELSE logged
            /\ UNCHANGED exit_code
       ELSE /\ pc' = "exited"
            /\ exit_code' = 1
            /\ logged' = logged
    /\ UNCHANGED <<const_vars, phase, setup_i, rv, children, teardown_vars,
                   flag_vars, self_pipe, fds, eintr, env_vars, fwd_vars,
                   bad_close, emitted, spawn_failed, failed_checks>>

(***************************************************************************)
(* signal_handler(): sets the flag of the signal (none for SIGCHLD) and    *)
(* writes one byte to the self-pipe, which is non-blocking: the write      *)
(* fails when the pipe is full.  At "poll" the main thread is inside       *)
(* poll() or about to call it: a handler that runs while it is inside      *)
(* makes poll() fail with EINTR, one that runs just before the call does   *)
(* not.                                                                    *)
(***************************************************************************)
HandlerWithoutWakeup(signum) ==
    /\ termination_signal_received' =
          IF signum \in {"SIGTERM", "SIGINT"} THEN 1 ELSE termination_signal_received
    /\ sigusr1_received' = IF signum = "SIGUSR1" THEN 1 ELSE sigusr1_received
    /\ sigusr2_received' = IF signum = "SIGUSR2" THEN 1 ELSE sigusr2_received
    /\ sigalrm_received' = IF signum = "SIGALRM" THEN 1 ELSE sigalrm_received
    /\ self_pipe' = self_pipe
    /\ eintr' \in {eintr, eintr \/ pc = "poll"}

signal_handler(signum) ==
    /\ termination_signal_received' =
          IF signum \in {"SIGTERM", "SIGINT"} THEN 1 ELSE termination_signal_received
    /\ sigusr1_received' = IF signum = "SIGUSR1" THEN 1 ELSE sigusr1_received
    /\ sigusr2_received' = IF signum = "SIGUSR2" THEN 1 ELSE sigusr2_received
    /\ sigalrm_received' = IF signum = "SIGALRM" THEN 1 ELSE sigalrm_received
    /\ self_pipe' = IF self_pipe < PipeCapacity THEN self_pipe + 1 ELSE self_pipe
    /\ eintr' \in {eintr, eintr \/ pc = "poll"}

\* what a signal delivery leaves alone in the supervisor
handler_frame ==
    <<const_vars, pc, phase, setup_i, rv, children, teardown_in_progress, fds,
      exit_code, sent, bad_kill, bad_close, alarm_calls,
      emitted, logged, spawn_failed, failed_checks, passes, next_pid>>

(***************************************************************************)
(* The environment: signals from outside, the alarm, the children.         *)
(***************************************************************************)
FlagOf(sg) == IF sg = "SIGUSR1" THEN sigusr1_received ELSE sigusr2_received

SignalArrives(sg) ==
    /\ pc # "exited"
    /\ budget > 0
    /\ budget' = budget - 1
    /\ signal_handler(sg)
    /\ UNCHANGED served
    /\ IF sg \in {"SIGUSR1", "SIGUSR2"}
       THEN /\ delivered' = [delivered EXCEPT ![sg] = @ + 1]
            /\ rises' = [rises EXCEPT ![sg] = IF FlagOf(sg) = 0 THEN @ + 1 ELSE @]
       ELSE UNCHANGED <<delivered, rises>>
    /\ UNCHANGED <<handler_frame, proc, pipes, written, alarm_armed>>

\* the timer armed by alarm(SHUTDOWN_TIMEOUT) expires
AlarmFires ==
    /\ pc # "exited"
    /\ alarm_armed
    /\ alarm_armed' = FALSE
    /\ signal_handler("SIGALRM")
    /\ UNCHANGED <<handler_frame, proc, pipes, written, budget, delivered, served, rises>>

\* a child writes one byte to its stdout or stderr
ChildWrites(i, s, b) ==
    /\ pc # "exited"
    /\ proc[i].state = "alive"
    /\ pipes[i][s].wopen
    /\ budget > 0
    /\ budget' = budget - 1
    /\ pipes' = [pipes EXCEPT ![i][s].data = Append(@, b)]
    /\ written' = [written EXCEPT ![i][s] = Append(@, b)]
    /\ UNCHANGED <<handler_frame, flag_vars, self_pipe, eintr, proc, alarm_armed,
                   delivered, served, rises>>

\* a child terminates, for whatever reason: its pipe ends close, SIGCHLD arrives
ChildExits(i, status) ==
    /\ pc # "exited"
    /\ proc[i].state = "alive"
    /\ proc' = [proc EXCEPT ![i].state = "zombie", ![i].status = status]
    /\ pipes' = [pipes EXCEPT ![i] = [s \in Streams |-> [@[s] EXCEPT !.wopen = FALSE]]]
    /\ signal_handler("SIGCHLD")
    /\ UNCHANGED <<handler_frame, written, budget, alarm_armed, delivered, served, rises>>

MainStep ==
    \/ SetupSkip
    \/ \E k \in 1..3 : SetupPipeFails(k)
    \/ SetupForkFails
    \/ SetupSpawn
    \/ SetupReturn
    \/ MainAfterCheck
    \/ PollIo
    \/ PollInterrupted
    \/ CsTermAct
    \/ CsUsr1Act
    \/ CsUsr2Act
    \/ CsAlrmAct
    \/ \E j \in Children : WaitReap(j)
    \/ PumpReturn

Environment ==
    \/ \E sg \in ExternalSignals : SignalArrives(sg)
    \/ AlarmFires
    \/ \E i \in Children, s \in Streams, b \in StreamBytes : ChildWrites(i, s, b)
    \/ \E i \in Children, status \in WaitStatuses : ChildExits(i, status)

Next == MainStep \/ Environment

Spec == Init /\ [][Next]_vars

(***************************************************************************)
(* Liveness: the main thread keeps taking steps while it has one to take   *)
(* (it is the only thread, and every call but poll() returns), and the     *)
(* timer armed by alarm() expires.  Nothing is assumed about the children  *)
(* or about signals from outside.                                          *)
(***************************************************************************)
\* the events of a run of SpecLive
MaxLiveEvents == 1

InitLive == InitWith(MaxLiveEvents, {TRUE})

SpecLive == InitLive /\ [][Next]_vars /\ WF_vars(MainStep) /\ WF_vars(AlarmFires)

(***************************************************************************)
(* Properties.                                                             *)
(***************************************************************************)
TermSignal(i) == Config(i).termination_signal

\* children[j]'s process is reaped by this step
ReapStep(j) == proc[j].state = "zombie" /\ proc'[j].state = "reaped"

(***************************************************************************)
(* C1.  Once a startup check has been reaped with a nonzero exit status,   *)
(* the supervisor never leaves the check phase and never spawns a child    *)
(* whose configuration has is_startup_check = 0, whatever the other checks *)
(* do afterwards.                                                          *)
(***************************************************************************)
C1_StartupCheckGating ==
    failed_checks # {} =>
        /\ phase = PHASE_CHECK
        /\ \A i \in Children :
              Config(i).is_startup_check = 0 => proc[i].state = "none"

\* a check has failed while a normal child is configured, and the
\* supervisor has exited without spawning it
C1_Witness ==
    /\ pc = "exited"
    /\ failed_checks # {}
    /\ \E i \in Children : Config(i).is_startup_check = 0

(***************************************************************************)
(* C2.  Once teardown_in_progress is 1 the supervisor eventually exits,    *)
(* whether through every child being reaped or through the alarm's         *)
(* brutal_teardown; an armed alarm stays armed until it fires or the       *)
(* process ends, and alarm() is not called a second time.                  *)
(***************************************************************************)
C2_BoundedShutdown ==
    /\ (teardown_in_progress = 1) ~> (pc = "exited")
    /\ [][(alarm_armed /\ pc # "exited") =>
              (alarm_armed' \/ sigalrm_received' = 1)]_vars
    /\ [][alarm_calls = 1 => alarm_calls' = 1]_vars

\* the alarm of a teardown has fired and its handling has killed a child
C2_Witness ==
    /\ pc = "exited"
    /\ teardown_in_progress = 1
    /\ alarm_calls = 1
    /\ ~alarm_armed
    /\ <<"Shutdown timeout has arrived, performing hard shutdown.", 0>> \in logged
    /\ \E i \in Children : sent[i]["SIGKILL"] = 1

(***************************************************************************)
(* C3.  For every stream of a child that has been reaped, the payloads of  *)
(* the records emitted for it, concatenated in order, are the sanitized    *)
(* bytes the child wrote (CR and LF removed, control bytes as spaces), and *)
(* there is at least one record for each line break written: no byte is    *)
(* dropped, whether unread in the pipe or unflushed in the line buffer.    *)
(***************************************************************************)
RECURSIVE Flatten(_)
Flatten(records) ==
    IF records = <<>> THEN <<>> ELSE Head(records) \o Flatten(Tail(records))

RECURSIVE Sanitized(_)
Sanitized(bytes) ==
    IF bytes = <<>> THEN <<>>
    ELSE IF Head(bytes) \in {10, 13} THEN Sanitized(Tail(bytes))
    ELSE IF Head(bytes) < 32 \/ Head(bytes) = 127
         THEN <<32>> \o Sanitized(Tail(bytes))
    ELSE <<Head(bytes)>> \o Sanitized(Tail(bytes))

LineBreaks(bytes) == Cardinality({n \in 1..Len(bytes) : bytes[n] = 10})

C3_OutputComplete ==
    \A i \in Children : \A s \in Streams :
        proc[i].state = "reaped" =>
            /\ Flatten(emitted[i][s]) = Sanitized(written[i][s])
            /\ Len(emitted[i][s]) >= LineBreaks(written[i][s])

(***************************************************************************)
(* C4.  teardown_in_progress, once 1, stays 1; over a whole run alarm() is *)
(* called at most once and every child is sent its termination signal at   *)
(* most once, however many times teardown is requested.                    *)
(***************************************************************************)
C4_TeardownOnce ==
    /\ [][teardown_in_progress = 1 => teardown_in_progress' = 1]_vars
    /\ [](alarm_calls <= 1)
    /\ [](\A i \in Children : sent[i][TermSignal(i)] <= 1)

\* teardown() has been called for the exit of each of two normal children
C4_Witness ==
    /\ phase = PHASE_NORMAL
    /\ \A i \in Children : proc[i].state = "reaped"
    /\ teardown_in_progress = 1
    /\ alarm_calls = 1
    /\ \E i \in Children : sent[i][TermSignal(i)] = 1

(***************************************************************************)
(* C5.  Handling a termination request while no teardown is in progress    *)
(* starts the soft teardown (termination signals to the running children,  *)
(* alarm armed) and does not exit; handling one while a teardown is in     *)
(* progress sends SIGKILL to every running child and exits with status 1.  *)
(***************************************************************************)
C5_TerminationEscalation ==
    [][(pc = "cs_term_act" /\ pc' # "cs_term_act") =>
          IF teardown_in_progress = 0
          THEN /\ teardown_in_progress' = 1
               /\ pc' # "exited"
               /\ alarm_armed'
               /\ \A i \in Running(children) :
                     sent'[i][TermSignal(i)] = sent[i][TermSignal(i)] + 1
               /\ \A i \in Children : sent'[i]["SIGKILL"] = sent[i]["SIGKILL"]
          ELSE /\ pc' = "exited"
               /\ exit_code' = 1
               /\ \A i \in Running(children) :
                     sent'[i]["SIGKILL"] = sent[i]["SIGKILL"] + 1]_vars

\* a second termination request has escalated a teardown that the first
\* one started, with a child still running
C5_Witness ==
    /\ pc = "exited"
    /\ exit_code = 1
    /\ budget = MaxEvents - 2
    /\ alarm_armed
    /\ <<"Shutdown already in progress, so performing hard shutdown.", 0>> \in logged
    /\ \E i \in Children : sent[i]["SIGKILL"] = 1 /\ sent[i][TermSignal(i)] = 1

(***************************************************************************)
(* C6.  A forwarded signal's flag is set exactly while a delivery of it    *)
(* has no forwarding pass after it; each pass ends one batch of            *)
(* deliveries, so the deliveries of a batch share one pass; the supervisor *)
(* does not block in poll() while a flag is set; and every delivery is     *)
(* eventually followed by a forwarding pass unless the supervisor exits.   *)
(***************************************************************************)
ForwardedSignals == {"SIGUSR1", "SIGUSR2"}

\* a configuration with a check and a normal child, each signal forwarded
ForwardTable ==
    [i \in Children |->
        IF i = 1
        THEN [is_startup_check |-> 1, receives_sigusr1 |-> 1, receives_sigusr2 |-> 0,
              termination_signal |-> "SIGINT"]
        ELSE [is_startup_check |-> 0, receives_sigusr1 |-> 0, receives_sigusr2 |-> 1,
              termination_signal |-> "SIGHUP"]]

InitForward == InitWith(MaxEvents, {TRUE}) /\ child_configuration = ForwardTable

SpecForward ==
    InitForward /\ [][Next]_vars /\ WF_vars(MainStep) /\ WF_vars(AlarmFires)

C6_SignalCoalescing ==
    /\ [](\A sg \in ForwardedSignals :
            /\ (delivered[sg] > 0) <=> (FlagOf(sg) = 1)
            /\ rises[sg] = passes[sg] + FlagOf(sg)
            /\ passes[sg] <= served[sg]
            /\ (FlagOf(sg) = 1 /\ pc = "poll") => ~Blocked)
    /\ \A sg \in ForwardedSignals :
          (delivered[sg] > 0) ~> (delivered[sg] = 0 \/ pc = "exited")

\* two deliveries of SIGUSR1 were followed by one forwarding pass, which
\* sent the signal to the check once
C6_Witness ==
    /\ served["SIGUSR1"] = 2
    /\ passes["SIGUSR1"] = 1
    /\ delivered["SIGUSR1"] = 0
    /\ sent[1]["SIGUSR1"] = 1

(***************************************************************************)
(* C7.  In the normal phase the step that reaps a child, whatever its      *)
(* status, leaves teardown_in_progress at 1 with the termination signal    *)
(* sent to every child still running; in the check phase reaping a check   *)
(* that exited with status 0 leaves teardown_in_progress as it was, and    *)
(* the pump loop of the check phase goes on exactly while a check runs.    *)
(***************************************************************************)
C7_ChildExitTrigger ==
    /\ [][\A j \in Children : ReapStep(j) =>
            /\ phase = PHASE_NORMAL =>
                  /\ teardown_in_progress' = 1
                  /\ \A i \in Running(children') : sent'[i][TermSignal(i)] = 1
            /\ (phase = PHASE_CHECK /\ proc[j].status = 0) =>
                  /\ teardown_in_progress' = teardown_in_progress
                  /\ sent' = sent]_vars
    /\ [][(phase = PHASE_CHECK /\ pc = "reap" /\ pc' # "reap") =>
            pc' = IF Running(children) # {} THEN "poll" ELSE "main_after_check"]_vars

\* the exit of one normal child, with no signal from outside, has sent the
\* other one its termination signal
C7_Witness ==
    /\ phase = PHASE_NORMAL
    /\ budget = MaxEvents
    /\ teardown_in_progress = 1
    /\ \E j \in Children : proc[j].state = "reaped"
    /\ \E i \in Running(children) :
          proc[i].state = "alive" /\ sent[i][TermSignal(i)] = 1

(***************************************************************************)
(* C8.  A pipe() or fork() failure in setup_children makes it return -1,   *)
(* and a failure while the checks are spawned leads neither to "All        *)
(* startup checks have passed." nor to the normal phase.                   *)
(***************************************************************************)
C8_SpawnFailureHandled ==
    /\ (pc = "setup_ret" /\ phase \in spawn_failed) => rv = -1
    /\ PHASE_CHECK \in spawn_failed =>
          /\ phase = PHASE_CHECK
          /\ <<"All startup checks have passed.", 0>> \notin logged

(***************************************************************************)
(* C9.  When no configuration is a normal child, the supervisor does not   *)
(* wait in poll() in the normal phase with no child running and no alarm   *)
(* armed.                                                                  *)
(***************************************************************************)
NoNormalChild == \A i \in Children : Config(i).is_startup_check # 0

C9_NoIdleWait ==
    ~ /\ NoNormalChild
      /\ phase = PHASE_NORMAL
      /\ pc = "poll"
      /\ Blocked
      /\ Running(children) = {}
      /\ ~alarm_armed

(***************************************************************************)
(* C10.  Whenever no spawned child is left unreaped the supervisor holds   *)
(* no descriptor beyond those it started with, and it has closed no        *)
(* descriptor twice.                                                       *)
(***************************************************************************)
C10_NoFdLeak ==
    /\ (\A j \in Children : ~Live(j)) => fds = StartupFds
    /\ ~bad_close

(***************************************************************************)
(* The line buffers under longer and wider input.  In SpecStream no signal *)
(* arrives from outside and no call fails; the normal child of             *)
(* ForwardTable writes up to MaxInput bytes, drawn from every class of     *)
(* byte pump_buffer tells apart and from both sides of each boundary, and  *)
(* the build's plain char is signed or unsigned.                           *)
(***************************************************************************)
MaxInput == 3

LineBytes == {7, 10, 13, 31, 32, 97, 127, 128, 255}

\* the child that writes: the normal child of ForwardTable
Writer == CHILDREN_COUNT

\* the writer writes one byte to its stdout
StreamWrites(b) ==
    /\ pc # "exited"
    /\ proc[Writer].state = "alive"
    /\ pipes[Writer]["out"].wopen
    /\ Len(written[Writer]["out"]) < MaxInput
    /\ pipes' = [pipes EXCEPT ![Writer]["out"].data = Append(@, b)]
    /\ written' = [written EXCEPT ![Writer]["out"] = Append(@, b)]
    /\ UNCHANGED <<handler_frame, flag_vars, self_pipe, eintr, proc, alarm_armed,
                   budget, delivered, served, rises>>

InitStream == InitWith(0, BOOLEAN) /\ child_configuration = ForwardTable

NextStream ==
    \/ SetupSkip
    \/ SetupSpawn
    \/ SetupReturn
    \/ MainAfterCheck
    \/ PollIo
    \/ PollInterrupted
    \/ \E j \in Children : WaitReap(j)
    \/ PumpReturn
    \/ \E b \in LineBytes : StreamWrites(b)
    \/ \E i \in Children, status \in WaitStatuses : ChildExits(i, status)

SpecStream == InitStream /\ [][NextStream]_vars

\* the stream of children[i]'s stdout is open and everything written to it
\* has been read
StreamDrained(i) ==
    /\ children[i].running # 0
    /\ children[i].stdout # -1
    /\ pipes[i]["out"].data = <<>>

(***************************************************************************)
(* C11.  Of the bytes read from a child's stdout, CR is discarded, LF ends *)
(* a record, a byte below 0x20 or equal to 0x7F is stored as a space and   *)
(* every other byte, those of 0x80..0xFF among them, is stored unchanged:  *)
(* once a stream that is still open has been read up, the payloads of its  *)
(* records followed by the line buffer are the bytes written, mapped so,   *)
(* and there is one record for each LF.                                    *)
(***************************************************************************)
C11_SanitisationMapping ==
    \A i \in Children :
        StreamDrained(i) =>
            /\ Flatten(emitted[i]["out"]) \o children[i].out_buffer
                  = Sanitized(written[i]["out"])
            /\ Len(emitted[i]["out"]) = LineBreaks(written[i]["out"])

(***************************************************************************)
(* C12.  The step that clears the flag of SIGUSR1 (of SIGUSR2) sends that  *)
(* signal once to each child that is running and whose configuration opts  *)
(* in, sends nothing else to anyone, reaches only unreaped children, and   *)
(* leaves teardown_in_progress and every child's state as they were.       *)
(***************************************************************************)
ActOf(sg) == IF sg = "SIGUSR1" THEN "cs_usr1_act" ELSE "cs_usr2_act"

OptsIn(i, sg) ==
    IF sg = "SIGUSR1" THEN Config(i).receives_sigusr1 # 0
    ELSE Config(i).receives_sigusr2 # 0

C12_ForwardingTargets ==
    [][\A sg \in ForwardedSignals :
          (pc = ActOf(sg) /\ pc' # ActOf(sg)) =>
              /\ \A i \in Children : \A other \in ChildSignals :
                    sent'[i][other] = sent[i][other] +
                        (IF other = sg /\ children[i].running # 0 /\ OptsIn(i, sg)
                         THEN 1 ELSE 0)
              /\ \A i \in Children :
                    sent'[i][sg] # sent[i][sg] => proc[i].state \in {"alive", "zombie"}
              /\ bad_kill' = bad_kill
              /\ teardown_in_progress' = teardown_in_progress
              /\ children' = children]_vars

\* a pass has sent SIGUSR1 to a running child that opted in and not to a
\* running child that did not
C12_Witness ==
    /\ passes["SIGUSR1"] = 1
    /\ \E i, k \in Children :
          /\ OptsIn(i, "SIGUSR1") /\ sent[i]["SIGUSR1"] = 1
          /\ ~OptsIn(k, "SIGUSR1") /\ children[k].running # 0
          /\ sent[k]["SIGUSR1"] = 0

(***************************************************************************)
(* C13.  Every record's payload has at most MAX_LINE_LENGTH bytes, none of *)
(* them LF, CR, below 0x20 or 0x7F; the line buffers hold at most          *)
(* MAX_LINE_LENGTH bytes, of the same kind; and a flush, at a LF or at end *)
(* of file, leaves the buffer empty.                                       *)
(***************************************************************************)
Clean(payload) ==
    /\ Len(payload) <= MAX_LINE_LENGTH
    /\ \A n \in 1..Len(payload) : payload[n] >= 32 /\ payload[n] # 127

C14_FullBufferFlush ==
    \A i \in Children :
        children[i].running # 0 =>
            /\ children[i].stdout # -1 =>
                  Len(children[i].out_buffer) < MAX_LINE_LENGTH
            /\ children[i].stdout = -1 => ~pipes[i]["out"].wopen

(***************************************************************************)
(* C15.  "has indicated failure" is logged for a check exactly when its    *)
(* reap called teardown(), whatever the wait status; so a run that has     *)
(* logged it for some check has a teardown in progress and never logs      *)
(* "All startup checks have passed.".                                      *)
(***************************************************************************)
FailureLogged(i) == <<"Process has indicated failure.", i>> \in logged

C15_VerdictConsistency ==
    /\ \A i \in Children : FailureLogged(i) <=> i \in failed_checks
    /\ (\E i \in Children : FailureLogged(i)) =>
          /\ teardown_in_progress = 1
          /\ <<"All startup checks have passed.", 0>> \notin logged

(***************************************************************************)
(* C16.  The hard teardown of the alarm path (SIGKILL to the running       *)
(* children, exit) happens only while teardown_in_progress is 1: a SIGALRM *)
(* seen by the loop while it is 0 kills no child and ends no supervisor.   *)
(***************************************************************************)
C16_AlarmOnlyFromTeardown ==
    /\ <<"Shutdown timeout has arrived, performing hard shutdown.", 0>> \in logged
          => teardown_in_progress = 1
    /\ (pc = "exited" /\ teardown_in_progress = 0) =>
          \A i \in Children : sent[i]["SIGKILL"] = 0

(***************************************************************************)
(* C17.  poll() cannot block while a signal flag is set or a terminated    *)
(* child is unreaped; and wherever in the loop a signal or a child's exit  *)
(* arrives, a set flag is eventually cleared by its handling and a         *)
(* terminated child is eventually reaped, unless the supervisor exits.     *)
(***************************************************************************)
FlagSet ==
    \/ termination_signal_received = 1
    \/ sigusr1_received = 1
    \/ sigusr2_received = 1
    \/ sigalrm_received = 1

C17_NoLostWakeup ==
    /\ []((pc = "poll" /\ (FlagSet \/ \E j \in Children : proc[j].state = "zombie"))
            => ~Blocked)
    /\ (termination_signal_received = 1)
          ~> (termination_signal_received = 0 \/ pc = "exited")
    /\ (sigusr1_received = 1) ~> (sigusr1_received = 0 \/ pc = "exited")
    /\ (sigusr2_received = 1) ~> (sigusr2_received = 0 \/ pc = "exited")
    /\ (sigalrm_received = 1) ~> (sigalrm_received = 0 \/ pc = "exited")
    /\ \A j \in Children :
          (proc[j].state = "zombie") ~> (proc[j].state = "reaped" \/ pc = "exited")

\* a signal arrived just before poll() was called, after the loop had tested
\* its flag: only the byte in the self-pipe keeps poll() from blocking
C17_Witness ==
    /\ pc = "poll"
    /\ FlagSet
    /\ ~eintr
    /\ self_pipe > 0
    /\ HungUp = {}
    /\ \A e \in Readable : e = SignalEntry

(***************************************************************************)
(* C18.  When poll() returns into an iteration that goes on to send the    *)
(* termination signals of a termination request (the flag is set, no       *)
(* teardown is in progress, a child is running), every child pipe that     *)
(* held readable data at that return is read in that iteration, before     *)
(* the signals are sent, whether poll() returned a count or EINTR.         *)
(***************************************************************************)
C18_DrainBeforeTeardown ==
    [][(/\ pc = "poll"
        /\ pc' = "cs_term_act"
        /\ teardown_in_progress = 0
        /\ Running(children) # {})
       => \A e \in Readable \ {SignalEntry} :
             Len(pipes'[e[1]][e[2]].data) < Len(pipes[e[1]][e[2]].data)]_vars

(***************************************************************************)
(* C19.  A child whose running flag is set has the positive pid its fork   *)
(* returned and has not been reaped; so no kill() of a teardown, a hard    *)
(* teardown or a forwarding pass has had pid 0, pid -1 or the pid of a     *)
(* reaped child.                                                           *)
(***************************************************************************)
C19_TargetsAreLive ==
    /\ \A i \in Children :
          children[i].running # 0 =>
              /\ children[i].pid > 0
              /\ children[i].pid = proc[i].pid
              /\ Live(i)
    /\ \A i \in Children :
          children[i].running = 0 =>
              (children[i].pid \in {0, -1} /\ \A sg \in ChildSignals :
                  proc[i].state = "none" => sent[i][sg] = 0)
    /\ ~bad_kill

\* a hard teardown has killed the child still running after another one had
\* been reaped
C19_Witness ==
    /\ \E j \in Children : proc[j].state = "reaped" /\ children[j].pid = -1
    /\ \E i \in Children :
          Live(i) /\ children[i].running # 0 /\ sent[i]["SIGKILL"] = 1

(***************************************************************************)
(* C20.  When the supervisor has exited, by main returning after either    *)
(* phase or by a hard teardown, every child it spawned has been reaped or  *)
(* has been sent SIGKILL; and no child is spawned while                    *)
(* teardown_in_progress is 1.                                              *)
(***************************************************************************)
C20_NoOrphans ==
    /\ [](pc = "exited" =>
            \A j \in Children :
                proc[j].state \in {"none", "reaped"} \/ sent[j]["SIGKILL"] >= 1)
    /\ [][\A j \in Children :
            (proc[j].state = "none" /\ proc'[j].state # "none")
                => (teardown_in_progress = 0 /\ teardown_in_progress' = 0)]_vars

\* the alarm's hard teardown has exited with a child alive, killed, next to
\* one that had been reaped
C20_Witness ==
    /\ pc = "exited"
    /\ <<"Shutdown timeout has arrived, performing hard shutdown.", 0>> \in logged
    /\ \E j \in Children : proc[j].state = "alive" /\ sent[j]["SIGKILL"] = 1
    /\ \E k \in Children : proc[k].state = "reaped"
====
